---------------------------- MODULE Spec2Model ----------------------------
(***************************************************************************)
(* A model of the rotating file writer of gookit/slog (package rotatefile) *)
(* and of the helpers around it: the rotation policy RotateTime, the       *)
(* directory scan findFilesInDir, the ordering modTimeFInfos and           *)
(* compressFile.                                                           *)
(*                                                                         *)
(* Time values are records [unix, nsec, off]: the epoch second, the        *)
(* nanosecond within it and the zone offset of the time's Location.        *)
(* Durations are records [sec, nsec] holding sec*10^9 + nsec nanoseconds   *)
(* (Go's int64 nanosecond count, split so that all arithmetic stays in     *)
(* the range of the model checker's integers).                             *)
(***************************************************************************)
EXTENDS Integers, Sequences, FiniteSets, TLC

VARIABLES
    \* ---- RotateTime.FirstCheckTime -------------------------------------
    now,        \* the time.Time handed to FirstCheckTime
    rt,         \* the RotateTime (interval in seconds)
    deadline,   \* the value FirstCheckTime returned (NoValue before the call)
    tpc,        \* "ready" before the call, "done" after it
    \* ---- Rotate Writer (spec sections 3 and 4.2) -----------------------
    wcfg,       \* the writer's policy: [maxSize (bytes), rotateTime (seconds)]
    clock,      \* what the writer's Clock returns now
    file,       \* content of the live file: the pieces written to it, in order
    size,       \* the size counter: bytes written to the live file
    nextAt,     \* epoch second of the next time-based rotation
    seq,        \* sequence number handed to the filename-generation function
    backups,    \* the backup inventory: backup path -> content
    calls,      \* history: the byte count of every Write call so far
    ticks,      \* history: how often the clock advanced
    last,       \* history: what the latest Write call did
    \* ---- findFilesInDir and retention (spec section 4.3) ---------------
    dirState,   \* what the log directory is: "ok", "missing", "statdenied", "notdir", "opendenied"
    dirFiles,   \* the files in the directory: file name -> modification time
    rcfg,       \* the limits the enforcement ran with: [BackupNum, BackupTime]
    rpc,        \* "ready", then "found" (after a scan) or "cleaned" (after enforcement)
    handled,    \* the files the handler was invoked with, in order
    scanErr,    \* the error findFilesInDir returned ("nil" for none)
    removed,    \* the files the enforcement deleted
    \* ---- concurrent Write calls (spec sections 4.2 and 5) --------------
    lcfg,       \* [CloseLock: writes are serialized, maxSize: threshold in bytes]
    mu,         \* the writer's mutex: 0 when free, else the call holding it
    lpc,        \* the step each caller's Write call is at
    handle,     \* the live file handle: "open" or "closed"
    lsize,      \* the size counter
    lbackups,   \* the number of renames done
    ldone,      \* the Write calls each caller has completed
    torn,       \* history: a call checked or wrote while another was rotating
    \* ---- compressFile ---------------------------------------------------
    srcFile,    \* the file at srcPath
    dstFile,    \* the file at dstPath
    cpre,       \* history: both files as they were before the call
    cret,       \* what compressFile returned: "nil" or "err"
    cpc,        \* "ready" before the call, "done" after it
    \* ---- SyncCloseWrapper and SyncCloseHandler --------------------------
    sink,       \* which of the two holds the Output: "wrapper" or "handler"
    outCalls,   \* history: the calls made on Output, in order, with their results
    hops,       \* history: the methods called on the sink, with what they returned
    \* ---- Record (record.go) --------------------------------------------
    heap,       \* the maps (type M) allocated so far; a map's address is its index
    recs,       \* the Record objects allocated so far; recs[1] is the caller's record
    written,    \* history: the calls of logger.writeRecord, in order
    rlast       \* history: the latest method call on a record, and the state before it

timeVars == <<now, rt, deadline, tpc>>
writerVars == <<wcfg, clock, file, size, nextAt, seq, backups, calls, ticks, last>>
retainVars == <<dirState, dirFiles, rcfg, rpc, handled, scanErr, removed>>

lockVars == <<lcfg, mu, lpc, handle, lsize, lbackups, ldone, torn>>

compVars == <<srcFile, dstFile, cpre, cret, cpc>>

closeVars == <<sink, outCalls, hops>>

recVars == <<heap, recs, written, rlast>>

vars == <<timeVars, writerVars, retainVars, lockVars, compVars, closeVars, recVars>>

\* what the actions of one part leave alone
exceptTime == <<writerVars, retainVars, lockVars, compVars, closeVars, recVars>>
exceptWriter == <<timeVars, retainVars, lockVars, compVars, closeVars, recVars>>
exceptRetain == <<timeVars, writerVars, lockVars, compVars, closeVars, recVars>>
exceptLock == <<timeVars, writerVars, retainVars, compVars, closeVars, recVars>>
exceptComp == <<timeVars, writerVars, retainVars, lockVars, closeVars, recVars>>
exceptClose == <<timeVars, writerVars, retainVars, lockVars, compVars, recVars>>
exceptRec == <<timeVars, writerVars, retainVars, lockVars, compVars, closeVars>>

NoValue == 0 - 1

(***************************************************************************)
(* Bounds of the model.                                                    *)
(***************************************************************************)
MaxDay == 1
MaxSizeMB == 1
MaxWrites == 4
MaxTicks == 2
MaxBackups == 3
NumProcs == 2
MaxCalls == 2
MaxLen == 3
MaxOps == 3
MaxChain == 2

(***************************************************************************)
(* package time / timex (github.com/gookit/goutil/timex), as used by       *)
(* rotatefile/config.go.                                                   *)
(***************************************************************************)
OneMinSec == 60
OneHourSec == 3600
OneDaySec == 86400

\* time.Second, in nanoseconds
Second == 1000 * 1000 * 1000

\* time.Duration(n) for an integer count of nanoseconds n
Duration(n) == [sec |-> n \div Second, nsec |-> n % Second]

\* timex.OneHour = time.Hour
OneHour == [sec |-> OneHourSec, nsec |-> 0]

\* d.Nanoseconds(), for the short durations the code rounds
Nanoseconds(d) == d.sec * Second + d.nsec

\* Duration.Round(m): the multiple of m nearest to d, halfway values away
\* from zero; d itself when m <= 0. d >= 0 here.
DurationRound(d, m) ==
    LET dn == Nanoseconds(d)
        mn == Nanoseconds(m)
        r  == dn % mn
    IN  IF mn <= 0 THEN d
        ELSE IF r + r < mn THEN Duration(dn - r)
        ELSE Duration(dn + mn - r)

\* seconds since the epoch on the wall clock of t's Location
Local(t) == t.unix + t.off

\* t.Unix()
Unix(t) == t.unix

\* t.Minute()
Minute(t) == (Local(t) % OneHourSec) \div OneMinSec

\* t.Hour()
Hour(t) == (Local(t) % OneDaySec) \div OneHourSec

\* t.Second()
SecondOf(t) == Local(t) % OneMinSec

\* days since 1970-01-01 of t's calendar day
DayIndex(t) == Local(t) \div OneDaySec

\* t.Add(d)
Add(t, d) ==
    LET n == t.nsec + d.nsec
    IN  [unix |-> t.unix + d.sec + (n \div Second), nsec |-> n % Second, off |-> t.off]

\* timex.HourStart(t): time.Date(y, m, d, t.Hour(), 0, 0, 0, t.Location())
HourStart(t) ==
    [unix |-> t.unix - (Local(t) % OneHourSec), nsec |-> 0, off |-> t.off]

\* timex.DayStart(t): time.Date(y, m, d, 0, 0, 0, 0, t.Location())
DayStart(t) ==
    [unix |-> t.unix - (Local(t) % OneDaySec), nsec |-> 0, off |-> t.off]

\* timex.DayEnd(t): time.Date(y, m, d, 23, 59, 59, int(time.Second-time.Nanosecond), t.Location())
DayEnd(t) ==
    [unix |-> t.unix - (Local(t) % OneDaySec) + (OneDaySec - 1),
     nsec |-> Second - 1, off |-> t.off]

(***************************************************************************)
(* rotatefile/config.go: RotateTime                                        *)
(***************************************************************************)
levelDay == 0
levelHour == 1
levelMin == 2
levelSec == 3

EveryDay == OneDaySec
EveryHour == OneHourSec
Every30Min == 30 * OneMinSec
Every15Min == 15 * OneMinSec
EveryMinute == OneMinSec
EverySecond == 1

\* RotateTime.Interval
Interval(r) == r

\* RotateTime.level
level(r) ==
    IF r >= OneDaySec THEN levelDay
    ELSE IF r >= OneHourSec THEN levelHour
    ELSE IF r >= EveryMinute THEN levelMin
    ELSE levelSec

\* RotateTime.FirstCheckTime
FirstCheckTime(r, t) ==
    LET interval == Interval(r)
        minutes  == interval \div 60
        nextMin  == Minute(t) + minutes
        nextDur  == DurationRound(Duration(nextMin), Duration(minutes))
    IN  CASE level(r) = levelDay  -> Unix(DayEnd(t))
          [] level(r) = levelHour -> Unix(Add(HourStart(t), OneHour))
          [] level(r) = levelMin  ->
                IF nextMin >= 60
                THEN Unix(Add(HourStart(t), OneHour))
                ELSE Unix(Add(HourStart(t), nextDur))
          [] OTHER -> Unix(t) + interval

(***************************************************************************)
(* The inputs FirstCheckTime is applied to: every second-of-minute in      *)
(* SampleSeconds of every minute of every hour of days 1..MaxDay+1, in the *)
(* zones ZoneOffsets, for the presets and further intervals of each        *)
(* granularity.                                                            *)
(***************************************************************************)
SampleSeconds == {0, 59}
SampleNanos == {0, Second - 1}
ZoneOffsets == {0, 5 * OneHourSec + 30 * OneMinSec}

Intervals ==
    {EverySecond, 30, EveryMinute, 5 * OneMinSec, Every15Min, Every30Min,
     39 * OneMinSec, EveryHour, 2 * EveryHour, EveryDay, 2 * EveryDay}

Times ==
    { [unix |-> d * OneDaySec + h * OneHourSec + m * OneMinSec + s, nsec |-> n, off |-> z] :
        d \in 1..(MaxDay + 1), h \in 0..23, m \in 0..59,
        s \in SampleSeconds, n \in SampleNanos, z \in ZoneOffsets }

TimeIdle ==
    /\ now = [unix |-> 0, nsec |-> 0, off |-> 0]
    /\ rt = 0
    /\ deadline = NoValue
    /\ tpc = "idle"

TimeInit ==
    /\ now \in Times
    /\ rt \in Intervals
    /\ deadline = NoValue
    /\ tpc = "ready"

\* one call of rt.FirstCheckTime(now)
CallFirstCheckTime ==
    /\ tpc = "ready"
    /\ deadline' = FirstCheckTime(rt, now)
    /\ tpc' = "done"
    /\ UNCHANGED <<now, rt>>
    /\ UNCHANGED exceptTime

(***************************************************************************)
(* Calendar fields of a time and Time.Format for the layouts the package   *)
(* uses.  The model's clock stays inside the year 1970.                    *)
(***************************************************************************)
MonthDays == <<31, 28, 31, 30, 31, 30, 31, 31, 30, 31, 30, 31>>

RECURSIVE MonthDayFrom(_, _)
\* <<month, day of month>> of the day that is `d` days after the first of month m
MonthDayFrom(d, m) ==
    IF m >= 12 \/ d < MonthDays[m] THEN <<m, d + 1>>
    ELSE MonthDayFrom(d - MonthDays[m], m + 1)

\* t.Year(), t.Month(), t.Day()
Year(t) == 1970 + (DayIndex(t) \div 365)
Month(t) == MonthDayFrom(DayIndex(t) % 365, 1)[1]
Day(t) == MonthDayFrom(DayIndex(t) % 365, 1)[2]

\* t.Format(layout): the numbers the layout prints, in order.  In the layout
\* 01 is the month, 02 the day, 15 the hour, 04 the minute, 05 the second and
\* 2006 the year; the "00" of "20060102_1500" is literal text.
Format(t, layout) ==
    CASE layout = "010215"          -> <<Month(t), Day(t), Hour(t)>>
      [] layout = "20060102"        -> <<Year(t), Month(t), Day(t)>>
      [] layout = "20060102_1500"   -> <<Year(t), Month(t), Day(t), Hour(t)>>
      [] layout = "20060102_1504"   -> <<Year(t), Month(t), Day(t), Hour(t), Minute(t)>>
      [] layout = "20060102_150405" ->
            <<Year(t), Month(t), Day(t), Hour(t), Minute(t), SecondOf(t)>>

\* RotateTime.TimeFormat
TimeFormat(r) ==
    CASE level(r) = levelDay  -> "20060102"
      [] level(r) = levelHour -> "20060102_1500"
      [] level(r) = levelMin  -> "20060102_1504"
      [] level(r) = levelSec  -> "20060102_150405"

RECURSIVE Digits(_)
\* the decimal digits of n >= 0
Digits(n) == IF n < 10 THEN <<n>> ELSE Append(Digits(n \div 10), n % 10)

RECURSIVE ZeroPad(_, _)
\* fmt's %0<w>d: zeros in front up to width w, never cutting digits
ZeroPad(ds, w) == IF Len(ds) >= w THEN ds ELSE ZeroPad(<<0>> \o ds, w)

\* DefaultFilenameFn(filepath, rotateNum), called when the wall clock shows t:
\* filepath + "." + t.Format("010215") + "_" + the number printed with %04d
DefaultFilenameFn(filepath, rotateNum, t) ==
    [base |-> filepath, stamp |-> Format(t, "010215"), num |-> ZeroPad(Digits(rotateNum), 4)]

\* the backup path of a time-triggered rotation: filepath + "." + time suffix
TimeBackupPath(filepath, r, t) ==
    [base |-> filepath, stamp |-> Format(t, TimeFormat(r)), num |-> <<>>]

(***************************************************************************)
(* rotatefile/config.go: Config                                            *)
(***************************************************************************)
oneMByte == 1024 * 1024

\* Config.maxSizeByte
maxSizeByte(MaxSize) == IF MaxSize < 1 THEN 0 ELSE MaxSize * oneMByte

(***************************************************************************)
(* The Rotate Writer.  Its code is not among the sources; it is modelled   *)
(* from sections 3, 4.2 and 6 of the specification.  A Write call is one   *)
(* step: threshold check, rotation if due, then the write.                 *)
(*                                                                         *)
(* The bytes of the k-th Write call are the piece [id |-> k, len |-> n]; a *)
(* file's content is the sequence of the pieces written to it.             *)
(***************************************************************************)
Filepath == "app.log"

\* size thresholds in bytes: what Config.maxSizeByte yields, and the byte-sized
\* thresholds of the specification's data model and scenarios
SpecSizes == {1, 2}
Thresholds == {maxSizeByte(m) : m \in 0..MaxSizeMB} \cup SpecSizes

WriteLens == {1, oneMByte}
WriterRotateTimes == {0, EverySecond, EveryMinute, EveryHour, EveryDay}
TickSteps == {1, OneHourSec}

StartTimes ==
    { [unix |-> OneDaySec + 10 * OneHourSec + 37 * OneMinSec, nsec |-> 0, off |-> 0],
      [unix |-> OneDaySec + 23 * OneHourSec + 59 * OneMinSec + 58, nsec |-> 0, off |-> 0] }

NoPath == [base |-> "", stamp |-> <<>>, num |-> <<>>]
NoBackups == [p \in {} |-> <<>>]

\* total bytes of a content
RECURSIVE Bytes(_)
Bytes(content) ==
    IF content = <<>> THEN 0 ELSE content[1].len + Bytes(Tail(content))

\* the inventory with the file `content` moved to `path` (a rename replaces
\* whatever was at that path)
Rename(inv, path, content) ==
    [p \in DOMAIN inv \cup {path} |-> IF p = path THEN content ELSE inv[p]]

\* (a) a time-based deadline is configured and now >= deadline
timeDue(t) == wcfg.rotateTime > 0 /\ Unix(t) >= nextAt

\* faulty variant of wouldExceed: a write that only fills the budget rotates too
wouldExceedOrFill(n) == wcfg.maxSize > 0 /\ size + n >= wcfg.maxSize
\* (b) a size threshold is configured and writing n bytes would exceed it
wouldExceed(n) == wcfg.maxSize > 0 /\ size + n > wcfg.maxSize

\* which rotation a Write of n bytes at time t performs first
rotationDue(n, t) ==
    IF timeDue(t) THEN "time" ELSE IF wouldExceed(n) THEN "size" ELSE "none"

\* the sequence number after a rotation: it resets on a time-boundary rotation
\* and increases on a size-triggered one
nextSeq(kind) == IF kind = "time" THEN 0 ELSE seq + 1

\* the backup path of a rotation
backupPath(kind, t) ==
    IF kind = "time" THEN TimeBackupPath(Filepath, wcfg.rotateTime, t)
    ELSE DefaultFilenameFn(Filepath, nextSeq(kind), t)

\* the pieces a Write of n bytes puts into the file it writes to
writtenPieces(id, n) == <<[id |-> id, len |-> n]>>

WriterIdle ==
    /\ wcfg = [maxSize |-> 0, rotateTime |-> 0]
    /\ clock = [unix |-> 0, nsec |-> 0, off |-> 0]
    /\ file = <<>>
    /\ size = 0
    /\ nextAt = 0
    /\ seq = 0
    /\ backups = NoBackups
    /\ calls = <<>>
    /\ ticks = 0
    /\ last = [kind |-> "idle", pre |-> 0, len |-> 0, path |-> NoPath,
               existed |-> FALSE, had |-> 0, moved |-> <<>>]

\* Config.Create: a fresh live file, the counter at 0, the first deadline
WriterInit ==
    /\ wcfg \in [maxSize : Thresholds, rotateTime : WriterRotateTimes]
    /\ clock \in StartTimes
    /\ file = <<>>
    /\ size = 0
    /\ nextAt = IF wcfg.rotateTime > 0 THEN FirstCheckTime(wcfg.rotateTime, clock) ELSE 0
    /\ seq = 0
    /\ backups = NoBackups
    /\ calls = <<>>
    /\ ticks = 0
    /\ last = [kind |-> "init", pre |-> 0, len |-> 0, path |-> NoPath,
               existed |-> FALSE, had |-> 0, moved |-> <<>>]

\* write(bytes) with n bytes
Write(n) ==
    LET t    == clock
        id   == Len(calls) + 1
        kind == rotationDue(n, t)
        path == IF kind = "none" THEN NoPath ELSE backupPath(kind, t)
    IN  /\ Len(calls) < MaxWrites
        /\ calls' = Append(calls, n)
        /\ last' = [kind |-> kind, pre |-> size, len |-> n, path |-> path,
                    existed |-> path \in DOMAIN backups,
                    had |-> Cardinality(DOMAIN backups), moved |-> file]
        /\ IF kind = "none"
           THEN /\ file' = file \o writtenPieces(id, n)
                /\ size' = size + n
                /\ UNCHANGED <<nextAt, seq, backups>>
           ELSE \* rotation: close, rename to the backup path, open a fresh
                \* file, reset the counter, recompute the deadline; then write
                /\ backups' = Rename(backups, path, file)
                /\ seq' = nextSeq(kind)
                /\ nextAt' = IF wcfg.rotateTime > 0
                             THEN FirstCheckTime(wcfg.rotateTime, t) ELSE nextAt
                /\ file' = writtenPieces(id, n)
                /\ size' = n
        /\ UNCHANGED <<wcfg, clock, ticks>>
        /\ UNCHANGED exceptWriter

\* the clock advances by d seconds
Tick(d) ==
    /\ ticks < MaxTicks
    /\ ticks' = ticks + 1
    /\ clock' = Add(clock, [sec |-> d, nsec |-> 0])
    /\ UNCHANGED <<wcfg, file, size, nextAt, seq, backups, calls, last>>
    /\ UNCHANGED exceptWriter

WriteAny == \E n \in WriteLens : Write(n)
TickAny == \E d \in TickSteps : Tick(d)

(***************************************************************************)
(* The log directory.  It holds the live file and backups of it; a file    *)
(* name is [base, ext] with ext = 0 for the live file and ext = k for its  *)
(* k-th backup.  Modification times are counted in hours.                  *)
(***************************************************************************)
LiveName == [base |-> Filepath, ext |-> 0]
BackupNames == {[base |-> Filepath, ext |-> k] : k \in 1..MaxBackups}
ModTimes == {1, 2, 3}
RetainNow == Cardinality(ModTimes) + 1
BackupTimes == {0, 2}
FailAts == {0, 1, 2}
DirStates == {"ok", "missing", "statdenied", "notdir", "opendenied"}

\* os.Stat(dir): the error it returns
StatErr(d) ==
    CASE d = "missing" -> "ENOENT"
      [] d = "statdenied" -> "EACCES"
      [] OTHER -> "nil"

\* os.Open(dir): the error it returns
OpenErr(d) == IF d = "opendenied" THEN "EACCES" ELSE "nil"

\* every order of the elements of the set S
RECURSIVE Orderings(_)
Orderings(S) ==
    IF S = {} THEN {<<>>}
    ELSE UNION {{<<x>> \o r : r \in Orderings(S \ {x})} : x \in S}

\* d.Readdir(-1): the directory's entries as os.FileInfo, in directory order
Readdir(files) ==
    {[i \in 1..Len(o) |-> [name |-> o[i], modTime |-> files[o[i]]]] : o \in Orderings(DOMAIN files)}

\* the loop over the filters: a file is skipped when some filter returns false.
\* A filter is given by the set of file names it accepts.
passes(fi, filters) == \A k \in 1..Len(filters) : fi.name \in filters[k]

\* the loop of findFilesInDir over stats: the handler is invoked with every
\* file that passes the filters, until it returns an error.  failAt is the
\* invocation at which the handler fails (0: it never does).
RECURSIVE scanLoop(_, _, _, _)
scanLoop(stats, filters, failAt, handledSoFar) ==
    IF stats = <<>> THEN [err |-> "nil", handled |-> handledSoFar]
    ELSE IF ~passes(Head(stats), filters)
         THEN scanLoop(Tail(stats), filters, failAt, handledSoFar)
    ELSE IF Len(handledSoFar) + 1 = failAt
         THEN [err |-> "handler", handled |-> Append(handledSoFar, Head(stats))]
    ELSE scanLoop(Tail(stats), filters, failAt, Append(handledSoFar, Head(stats)))

\* findFilesInDir(dir, handleFn, filters...).  The result err is a named
\* result that the := of the Stat and Open calls assign, so the bare returns
\* hand the Stat or Open error to the caller.
findFilesInDir(d, stats, filters, failAt) ==
    IF StatErr(d) # "nil" THEN [err |-> StatErr(d), handled |-> <<>>]
    ELSE IF d = "notdir" THEN [err |-> "nil", handled |-> <<>>]
    ELSE IF OpenErr(d) # "nil" THEN [err |-> OpenErr(d), handled |-> <<>>]
    ELSE scanLoop(stats, filters, failAt, <<>>)

\* faulty variant of Less: the comparison turned around, newest first
LessNewestFirst(fi, fj) == fi.modTime > fj.modTime
\* modTimeFInfos.Less on two elements: fis[j].ModTime().After(fis[i].ModTime())
Less(fi, fj) == fj.modTime > fi.modTime

\* sort.Sort(modTimeFInfos(fis)).  The sort is not stable; as the directory
\* order it starts from is arbitrary, inserting in that order yields every
\* order a sort by Less can produce.
RECURSIVE insertSorted(_, _)
insertSorted(sorted, x) ==
    IF sorted = <<>> THEN <<x>>
    ELSE IF Less(x, Head(sorted)) THEN <<x>> \o sorted
    ELSE <<Head(sorted)>> \o insertSorted(Tail(sorted), x)

RECURSIVE Sort(_)
Sort(fis) ==
    IF fis = <<>> THEN <<>>
    ELSE insertSorted(Sort(SubSeq(fis, 1, Len(fis) - 1)), fis[Len(fis)])

\* Config.backupDuration, in hours
backupDuration(BackupTime) == IF BackupTime < 1 THEN 0 ELSE BackupTime

\* the filter of the retention scan: the backups of the base file, not the
\* live file itself
backupFilter == {n \in BackupNames \cup {LiveName} : n.base = Filepath /\ n.ext # 0}
\* a filter that accepts nothing but the first backup
firstFilter == {[base |-> Filepath, ext |-> 1]}

\* retention by count: with maxCount nonzero and more matches than that, the
\* oldest excess files
excessByCount(sorted, maxCount) ==
    IF maxCount # 0 /\ Len(sorted) > maxCount
    THEN {sorted[i].name : i \in 1..(Len(sorted) - maxCount)}
    ELSE {}

\* retention by age: with maxAge nonzero, every match older than now - maxAge
expiredByAge(sorted, maxAge, t) ==
    IF maxAge # 0
    THEN {sorted[i].name : i \in {j \in 1..Len(sorted) : sorted[j].modTime < t - maxAge}}
    ELSE {}

RetainIdle ==
    /\ dirState = "idle"
    /\ dirFiles = [n \in {} |-> 0]
    /\ rcfg = [BackupNum |-> 0, BackupTime |-> 0]
    /\ rpc = "idle"
    /\ handled = <<>>
    /\ scanErr = "nil"
    /\ removed = {}

RetainInit ==
    /\ dirState \in DirStates
    /\ \E present \in SUBSET BackupNames :
          dirFiles \in [present \cup {LiveName} -> ModTimes]
    /\ dirFiles[LiveName] = 3
    /\ rcfg = [BackupNum |-> 0, BackupTime |-> 0]
    /\ rpc = "ready"
    /\ handled = <<>>
    /\ scanErr = "nil"
    /\ removed = {}

\* one call of findFilesInDir with some filters and a handler that may fail
FindFiles ==
    /\ rpc = "ready"
    /\ \E stats \in Readdir(dirFiles), failAt \in FailAts,
          filters \in {<<>>, <<backupFilter>>, <<backupFilter, firstFilter>>} :
          LET res == findFilesInDir(dirState, stats, filters, failAt)
          IN  /\ handled' = res.handled
              /\ scanErr' = res.err
    /\ rpc' = "found"
    /\ UNCHANGED <<dirState, dirFiles, rcfg, removed>>
    /\ UNCHANGED exceptRetain

\* enforce(basePath, maxCount, maxAge, now): scan, order oldest first, delete
\* by count and by age.  A scan error counts as "no matching backups found".
Clean ==
    /\ rpc = "ready"
    /\ \E stats \in Readdir(dirFiles), maxCount \in 0..MaxBackups, maxAge \in BackupTimes :
          LET res    == findFilesInDir(dirState, stats, <<backupFilter>>, 0)
              found  == IF res.err = "nil" THEN res.handled ELSE <<>>
              sorted == Sort(found)
              gone   == excessByCount(sorted, maxCount)
                          \cup expiredByAge(sorted, backupDuration(maxAge), RetainNow)
          IN  /\ rcfg' = [BackupNum |-> maxCount, BackupTime |-> maxAge]
              /\ handled' = sorted
              /\ scanErr' = res.err
              /\ removed' = gone
              /\ dirFiles' = [n \in DOMAIN dirFiles \ gone |-> dirFiles[n]]
    /\ rpc' = "cleaned"
    /\ UNCHANGED dirState
    /\ UNCHANGED exceptRetain

(***************************************************************************)
(* Concurrent Write calls on one writer (spec sections 4.2 and 5).  The    *)
(* writer's code is not among the sources; the steps of a Write call are   *)
(* those of section 4.2: take the writer's mutex when write serialization  *)
(* is enabled, check the threshold, rotate (close the handle, rename, open *)
(* a fresh file, reset the counter), write, release.  Every call writes    *)
(* one byte.                                                               *)
(***************************************************************************)
Procs == 1..NumProcs
RotateSteps == {"close", "rename", "open", "reset"}
CriticalSteps == {"check", "write", "unlock"} \cup RotateSteps

\* some call other than p's is in the middle of a rotation
midRotation(p) == \E q \in Procs \ {p} : lpc[q] \in RotateSteps

\* faulty variant of mutexFree: the mutex is taken without waiting for it
mutexFreeIgnored == TRUE
\* the mutex can be taken
mutexFree == mu = 0

LockIdle ==
    /\ lcfg = [CloseLock |-> FALSE, maxSize |-> 0]
    /\ mu = 0
    /\ lpc = [p \in {} |-> "idle"]
    /\ handle = "idle"
    /\ lsize = 0
    /\ lbackups = 0
    /\ ldone = [p \in {} |-> 0]
    /\ torn = FALSE

LockInit ==
    /\ lcfg \in [CloseLock : BOOLEAN, maxSize : {1, 2}]
    /\ mu = 0
    /\ lpc = [p \in Procs |-> "idle"]
    /\ handle = "open"
    /\ lsize = 0
    /\ lbackups = 0
    /\ ldone = [p \in Procs |-> 0]
    /\ torn = FALSE

\* a caller enters Write
CallWrite(p) ==
    /\ lpc[p] = "idle"
    /\ ldone[p] < MaxCalls
    /\ lpc' = [lpc EXCEPT ![p] = "lock"]
    /\ UNCHANGED <<lcfg, mu, handle, lsize, lbackups, ldone, torn>>
    /\ UNCHANGED exceptLock

\* with write serialization the call waits for the mutex and takes it
Lock(p) ==
    /\ lpc[p] = "lock"
    /\ lcfg.CloseLock => mutexFree
    /\ mu' = IF lcfg.CloseLock THEN p ELSE mu
    /\ lpc' = [lpc EXCEPT ![p] = "check"]
    /\ UNCHANGED <<lcfg, handle, lsize, lbackups, ldone, torn>>
    /\ UNCHANGED exceptLock

\* the threshold check reads the size counter
Check(p) ==
    /\ lpc[p] = "check"
    /\ torn' = (torn \/ midRotation(p))
    /\ lpc' = [lpc EXCEPT ![p] = IF lsize + 1 > lcfg.maxSize THEN "close" ELSE "write"]
    /\ UNCHANGED <<lcfg, mu, handle, lsize, lbackups, ldone>>
    /\ UNCHANGED exceptLock

\* rotation: close the current handle
CloseHandle(p) ==
    /\ lpc[p] = "close"
    /\ handle' = "closed"
    /\ lpc' = [lpc EXCEPT ![p] = "rename"]
    /\ UNCHANGED <<lcfg, mu, lsize, lbackups, ldone, torn>>
    /\ UNCHANGED exceptLock

\* rotation: rename the closed file to the backup path
RenameFile(p) ==
    /\ lpc[p] = "rename"
    /\ lbackups' = lbackups + 1
    /\ lpc' = [lpc EXCEPT ![p] = "open"]
    /\ UNCHANGED <<lcfg, mu, handle, lsize, ldone, torn>>
    /\ UNCHANGED exceptLock

\* rotation: open a fresh file at the base path
OpenFile(p) ==
    /\ lpc[p] = "open"
    /\ handle' = "open"
    /\ lpc' = [lpc EXCEPT ![p] = "reset"]
    /\ UNCHANGED <<lcfg, mu, lsize, lbackups, ldone, torn>>
    /\ UNCHANGED exceptLock

\* rotation: reset the size counter
ResetSize(p) ==
    /\ lpc[p] = "reset"
    /\ lsize' = 0
    /\ lpc' = [lpc EXCEPT ![p] = "write"]
    /\ UNCHANGED <<lcfg, mu, handle, lbackups, ldone, torn>>
    /\ UNCHANGED exceptLock

\* the write to the handle; it sees a half-updated writer when the handle is
\* closed or another call is rotating
WriteBytes(p) ==
    /\ lpc[p] = "write"
    /\ torn' = (torn \/ handle = "closed" \/ midRotation(p))
    /\ lsize' = lsize + 1
    /\ lpc' = [lpc EXCEPT ![p] = "unlock"]
    /\ UNCHANGED <<lcfg, mu, handle, lbackups, ldone>>
    /\ UNCHANGED exceptLock

\* the call returns, releasing the mutex if it took it
Unlock(p) ==
    /\ lpc[p] = "unlock"
    /\ mu' = IF lcfg.CloseLock THEN 0 ELSE mu
    /\ ldone' = [ldone EXCEPT ![p] = @ + 1]
    /\ lpc' = [lpc EXCEPT ![p] = "idle"]
    /\ UNCHANGED <<lcfg, handle, lsize, lbackups, torn>>
    /\ UNCHANGED exceptLock

CallWriteAny == \E p \in Procs : CallWrite(p)
LockAny == \E p \in Procs : Lock(p)
CheckAny == \E p \in Procs : Check(p)
CloseHandleAny == \E p \in Procs : CloseHandle(p)
RenameFileAny == \E p \in Procs : RenameFile(p)
OpenFileAny == \E p \in Procs : OpenFile(p)
ResetSizeAny == \E p \in Procs : ResetSize(p)
WriteBytesAny == \E p \in Procs : WriteBytes(p)
UnlockAny == \E p \in Procs : Unlock(p)

(***************************************************************************)
(* compressFile.  A file is [exists, modTime, content]; the content of a   *)
(* source file is a sequence of bytes, the content of a destination file   *)
(* the sequence of gzip streams appended to it.  A stream is               *)
(* [name, modTime, payload, complete]: the header fields, the source bytes *)
(* that reached the file and whether the stream was closed (trailer        *)
(* written).                                                               *)
(***************************************************************************)
SrcPath == "app.log.1"
DataBytes == {0, 1}
FailPoints == {"none", "opensrc", "opendst", "stat", "copy", "close"}

\* all byte sequences of length at most n
SeqsUpTo(n) == UNION {[1..k -> DataBytes] : k \in 0..n}

NoFile == [exists |-> FALSE, modTime |-> 0, content |-> <<>>]

\* an archive written by an earlier, successful call
OldArchive ==
    [exists |-> TRUE, modTime |-> 1,
     content |-> <<[name |-> "old", modTime |-> 1, payload |-> <<0>>, complete |-> TRUE]>>]

\* fsutil.QuickOpenFile(dstPath): os.OpenFile with O_CREATE|O_WRONLY|O_APPEND,
\* which creates the file when it is absent and keeps what it holds otherwise
QuickOpenFile(f) == IF f.exists THEN f ELSE [exists |-> TRUE, modTime |-> 2, content |-> <<>>]

\* what the gzip writer zw has put into the destination when k source bytes
\* went through and the stream was closed or not
gzipStream(src, k, closed) ==
    [name |-> SrcPath, modTime |-> src.modTime,
     payload |-> SubSeq(src.content, 1, k), complete |-> closed]

\* the destination after appending a stream
appendStream(f, s) == [f EXCEPT !.content = Append(@, s), !.modTime = 2]

\* compressFile(srcPath, dstPath) with the step `fail` failing (k source
\* bytes copied before a failing copy): [ret, dst].  Nothing removes dstPath
\* on the error returns; the deferred calls only close the two handles.
compressFile(src, dst, fail, k) ==
    IF ~src.exists \/ fail = "opensrc" THEN [ret |-> "err", dst |-> dst]
    ELSE IF fail = "opendst" THEN [ret |-> "err", dst |-> dst]
    ELSE IF fail = "stat" THEN [ret |-> "err", dst |-> QuickOpenFile(dst)]
    ELSE IF fail = "copy"
         THEN [ret |-> "err",
               dst |-> appendStream(QuickOpenFile(dst), gzipStream(src, k, FALSE))]
    ELSE IF fail = "close"
         THEN [ret |-> "err",
               dst |-> appendStream(QuickOpenFile(dst),
                                    gzipStream(src, Len(src.content), FALSE))]
    ELSE [ret |-> "nil",
          dst |-> appendStream(QuickOpenFile(dst), gzipStream(src, Len(src.content), TRUE))]

CompIdle ==
    /\ srcFile = NoFile
    /\ dstFile = NoFile
    /\ cpre = [src |-> NoFile, dst |-> NoFile]
    /\ cret = "idle"
    /\ cpc = "idle"

CompInit ==
    /\ srcFile \in {NoFile} \cup
          {[exists |-> TRUE, modTime |-> m, content |-> c] : m \in {1, 2}, c \in SeqsUpTo(MaxLen)}
    /\ dstFile \in {NoFile, OldArchive}
    /\ cpre = [src |-> srcFile, dst |-> dstFile]
    /\ cret = "none"
    /\ cpc = "ready"

\* one call of compressFile
Compress ==
    /\ cpc = "ready"
    /\ \E fail \in FailPoints, k \in 0..Len(srcFile.content) :
          LET res == compressFile(srcFile, dstFile, fail, k)
          IN  /\ cret' = res.ret
              /\ dstFile' = res.dst
    /\ cpc' = "done"
    /\ UNCHANGED <<srcFile, cpre>>
    /\ UNCHANGED exceptComp

(***************************************************************************)
(* handler/sync_close.go: SyncCloseWrapper and SyncCloseHandler.  Output   *)
(* is any SyncCloseWriter; what its Sync, Close and Write return, and what *)
(* the handler's Formatter returns, are inputs of the calls.               *)
(***************************************************************************)
Sinks == {"wrapper", "handler"}
SyncResults == {"nil", "errSync"}
CloseResults == {"nil", "errClose"}
WriteResults == {"nil", "errWrite"}
FormatResults == {"nil", "errFormat"}

\* one call made on Output and what it returned
OutCall(op, res) == [op |-> op, res |-> res]

\* func (w *SyncCloseWrapper) Flush() error
SyncCloseWrapperFlush(syncRes) ==
    [calls |-> <<OutCall("Sync", syncRes)>>, ret |-> syncRes]

\* func (w *SyncCloseWrapper) Close() error
SyncCloseWrapperClose(syncRes, closeRes) ==
    LET f == SyncCloseWrapperFlush(syncRes)
    IN  IF f.ret # "nil" THEN [calls |-> f.calls, ret |-> f.ret]
        ELSE [calls |-> Append(f.calls, OutCall("Close", closeRes)), ret |-> closeRes]

\* func (w *SyncCloseWrapper) Write(p []byte) (int, error)
SyncCloseWrapperWrite(writeRes) ==
    [calls |-> <<OutCall("Write", writeRes)>>, ret |-> writeRes]

\* func (h *SyncCloseHandler) Flush() error
SyncCloseHandlerFlush(syncRes) ==
    [calls |-> <<OutCall("Sync", syncRes)>>, ret |-> syncRes]

\* func (h *SyncCloseHandler) Close() error
SyncCloseHandlerClose(syncRes, closeRes) ==
    LET f == SyncCloseHandlerFlush(syncRes)
    IN  IF f.ret # "nil" THEN [calls |-> f.calls, ret |-> f.ret]
        ELSE [calls |-> Append(f.calls, OutCall("Close", closeRes)), ret |-> closeRes]

\* func (h *SyncCloseHandler) Handle(record *slog.Record) error
SyncCloseHandlerHandle(formatRes, writeRes) ==
    IF formatRes # "nil" THEN [calls |-> <<>>, ret |-> formatRes]
    ELSE [calls |-> <<OutCall("Write", writeRes)>>, ret |-> writeRes]

CloseIdle ==
    /\ sink = "wrapper"
    /\ outCalls = <<>>
    /\ hops = <<>>

CloseInit ==
    /\ sink \in Sinks
    /\ outCalls = <<>>
    /\ hops = <<>>

\* the record of one method call on the sink: what it returned and which
\* stretch of outCalls it made
methodCall(op, res) ==
    [op |-> op, ret |-> res.ret,
     from |-> Len(outCalls), to |-> Len(outCalls) + Len(res.calls)]

WrapperClose ==
    /\ sink = "wrapper"
    /\ Len(hops) < MaxOps
    /\ \E s \in SyncResults, c \in CloseResults :
          LET res == SyncCloseWrapperClose(s, c)
          IN  /\ outCalls' = outCalls \o res.calls
              /\ hops' = Append(hops, methodCall("Close", res))
    /\ UNCHANGED sink
    /\ UNCHANGED exceptClose

WrapperFlush ==
    /\ sink = "wrapper"
    /\ Len(hops) < MaxOps
    /\ \E s \in SyncResults :
          LET res == SyncCloseWrapperFlush(s)
          IN  /\ outCalls' = outCalls \o res.calls
              /\ hops' = Append(hops, methodCall("Flush", res))
    /\ UNCHANGED sink
    /\ UNCHANGED exceptClose

WrapperWrite ==
    /\ sink = "wrapper"
    /\ Len(hops) < MaxOps
    /\ \E w \in WriteResults :
          LET res == SyncCloseWrapperWrite(w)
          IN  /\ outCalls' = outCalls \o res.calls
              /\ hops' = Append(hops, methodCall("Write", res))
    /\ UNCHANGED sink
    /\ UNCHANGED exceptClose

HandlerClose ==
    /\ sink = "handler"
    /\ Len(hops) < MaxOps
    /\ \E s \in SyncResults, c \in CloseResults :
          LET res == SyncCloseHandlerClose(s, c)
          IN  /\ outCalls' = outCalls \o res.calls
              /\ hops' = Append(hops, methodCall("Close", res))
    /\ UNCHANGED sink
    /\ UNCHANGED exceptClose

HandlerFlush ==
    /\ sink = "handler"
    /\ Len(hops) < MaxOps
    /\ \E s \in SyncResults :
          LET res == SyncCloseHandlerFlush(s)
          IN  /\ outCalls' = outCalls \o res.calls
              /\ hops' = Append(hops, methodCall("Flush", res))
    /\ UNCHANGED sink
    /\ UNCHANGED exceptClose

HandlerHandle ==
    /\ sink = "handler"
    /\ Len(hops) < MaxOps
    /\ \E f \in FormatResults, w \in WriteResults :
          LET res == SyncCloseHandlerHandle(f, w)
          IN  /\ outCalls' = outCalls \o res.calls
              /\ hops' = Append(hops, methodCall("Handle", res))
    /\ UNCHANGED sink
    /\ UNCHANGED exceptClose

(***************************************************************************)
(* record.go: Record.  A map of type M is a reference: record fields hold  *)
(* the address of a map in heap, NilMap for a nil map.  A *Record is an    *)
(* index into recs.  Levels are named, their numeric values do not matter. *)
(***************************************************************************)
NilMap == 0
NilCtx == "nil"
NilFrame == "nil"
NoLevel == "Level(0)"

DefaultChannelName == "application"
FieldKeyError == "error"

\* the values the calls are tried with
Keys == {"k1", "k2"}
Vals == {"v1", "v2"}
Errs == {"err1"}
Ctxs == {"ctx1", "ctx2"}
ZeroTime == [unix |-> 0, nsec |-> 0, off |-> 0]
RecTimes == {[unix |-> OneDaySec, nsec |-> 0, off |-> 0]}

\* make(M, n): a new map without entries
EmptyMap == [k \in {} |-> "v1"]

\* m[k] = v
put(m, k, v) == [x \in DOMAIN m \cup {k} |-> IF x = k THEN v ELSE m[x]]

\* for k, v := range src { m[k] = v }
putAll(m, src) ==
    [x \in DOMAIN m \cup DOMAIN src |-> IF x \in DOMAIN src THEN src[x] ELSE m[x]]

\* what ranging over the map at address a yields (nothing for a nil map)
entries(h, a) == IF a = NilMap THEN EmptyMap ELSE h[a]

\* a map argument of a call: nil, or a map with the entries kv
NilArg == [isNil |-> TRUE, kv |-> EmptyMap]
MapArg(kv) == [isNil |-> FALSE, kv |-> kv]

\* the caller's map argument put on the heap: the heap after it and its address
alloc(h, a) ==
    IF a.isNil THEN [heap |-> h, addr |-> NilMap]
    ELSE [heap |-> Append(h, a.kv), addr |-> Len(h) + 1]

\* the Logger a record belongs to
TheLogger == [name |-> "logger", CallerFlag |-> 1, CallerSkip |-> 6]

\* the zero value of Record
zeroRecord ==
    [logger |-> "nil", Time |-> ZeroTime, Level |-> NoLevel, levelName |-> "",
     Channel |-> "", Message |-> <<>>, Ctx |-> NilCtx,
     Fields |-> NilMap, Data |-> NilMap, Extra |-> NilMap,
     Caller |-> NilFrame, CallerFlag |-> 0, CallerSkip |-> 0]

\* func newRecord(logger *Logger) *Record
newRecord(logger) ==
    [zeroRecord EXCEPT !.logger = logger.name,
                       !.Channel = DefaultChannelName,
                       !.CallerFlag = logger.CallerFlag,
                       !.CallerSkip = logger.CallerSkip]

\* func (r *Record) Copy() *Record: the heap after the call and the new record
Copy(h, r) ==
    LET dataCopy   == putAll(EmptyMap, entries(h, r.Data))
        fieldsCopy == putAll(EmptyMap, entries(h, r.Fields))
        extraCopy  == putAll(EmptyMap, entries(h, r.Extra))
    IN  [heap |-> h \o <<dataCopy, fieldsCopy, extraCopy>>,
         rec  |-> [zeroRecord EXCEPT !.logger = r.logger,
                                     !.Channel = r.Channel,
                                     !.Time = r.Time,
                                     !.Level = r.Level,
                                     !.levelName = r.levelName,
                                     !.CallerFlag = r.CallerFlag,
                                     !.CallerSkip = r.CallerSkip,
                                     !.Message = r.Message,
                                     !.Data = Len(h) + 1,
                                     !.Extra = Len(h) + 3,
                                     !.Fields = Len(h) + 2]]

\* func (r *Record) AddValue(key string, value any) *Record: the heap and the
\* receiver after the call
AddValue(h, r, key, value) ==
    IF r.Data = NilMap
    THEN [heap |-> Append(h, EmptyMap), rec |-> [r EXCEPT !.Data = Len(h) + 1]]
    ELSE [heap |-> [h EXCEPT ![r.Data] = put(@, key, value)], rec |-> r]

\* the arguments of a call that the call does not have
NoArgs ==
    [name |-> "", key |-> "", val |-> "", map |-> NilArg, t |-> ZeroTime,
     ctx |-> NilCtx, err |-> ""]

\* the record of the n-th method call: op on recs[recv] with arguments a,
\* returning recs[ret]
methodRun(n, op, recv, ret, a) ==
    [n |-> n, op |-> op, recv |-> recv, ret |-> ret, args |-> a,
     preHeap |-> heap, preRecs |-> recs]

NoRun == [n |-> 0, op |-> "none", recv |-> 0, ret |-> 0, args |-> NoArgs,
          preHeap |-> <<>>, preRecs |-> <<>>]

\* the maps a record starts with
InitData == {NilArg, MapArg(EmptyMap), MapArg(put(EmptyMap, "k1", "v1"))}
InitFields == {NilArg, MapArg(put(EmptyMap, "k1", "v1"))}
InitExtra == {NilArg, MapArg(put(EmptyMap, "k2", "v2"))}

RecIdle ==
    /\ heap = <<>>
    /\ recs = <<>>
    /\ written = <<>>
    /\ rlast = NoRun

\* a record made by newRecord whose Data, Fields, Extra, Ctx and Caller have
\* or have not been set since
RecInit ==
    /\ \E d \in InitData, f \in InitFields, e \in InitExtra,
          ctx \in {NilCtx, "ctx1"}, caller \in {NilFrame, "frame1"} :
          LET a1 == alloc(<<>>, d)
              a2 == alloc(a1.heap, f)
              a3 == alloc(a2.heap, e)
          IN  /\ heap = a3.heap
              /\ recs = <<[newRecord(TheLogger) EXCEPT !.Data = a1.addr,
                                                       !.Fields = a2.addr,
                                                       !.Extra = a3.addr,
                                                       !.Ctx = ctx,
                                                       !.Caller = caller]>>
    /\ written = <<>>
    /\ rlast = NoRun

CallAddValue ==
    /\ rlast.n < MaxChain
    /\ \E i \in 1..Len(recs), key \in Keys, value \in Vals :
          LET res == AddValue(heap, recs[i], key, value)
          IN  /\ heap' = res.heap
              /\ recs' = [recs EXCEPT ![i] = res.rec]
              /\ rlast' = methodRun(rlast.n + 1, "AddValue", i, i,
                                    [NoArgs EXCEPT !.key = key, !.val = value])
    /\ UNCHANGED written
    /\ UNCHANGED exceptRec

\* the arguments the logging methods are tried with
LogArgs == {<<"a", "b">>}
LogFormats == {<<"%s", "=", "%s">>}

\* formatArgsWithSpaces(args): the arguments with a space between neighbours
formatArgsWithSpaces(args) ==
    [i \in 1..(2 * Len(args) - 1) |-> IF i % 2 = 1 THEN args[(i + 1) \div 2] ELSE " "]

\* fmt.Sprintf(format, args...): every verb of the format replaced by the
\* next argument, "%!s(MISSING)" where the arguments have run out
Sprintf(format, args) ==
    [i \in 1..Len(format) |->
        IF format[i] # "%s" THEN format[i]
        ELSE LET n == Cardinality({j \in 1..i : format[j] = "%s"})
             IN  IF n <= Len(args) THEN args[n] ELSE "%!s(MISSING)"]

\* r.logger.writeRecord(level, r): the call as the logger receives it
writeRecord(lv, i, r) == [level |-> lv, rec |-> i, record |-> r]

\* func (r *Record) log(level Level, args []any): the receiver recs[i] after
\* the call and the call it made on the logger
log(i, r, lv, args) ==
    LET r1 == [r EXCEPT !.Level = lv, !.Message = formatArgsWithSpaces(args)]
    IN  [rec |-> r1, write |-> writeRecord(lv, i, r1)]

\* func (r *Record) logf(level Level, format string, args []any)
logf(i, r, lv, format, args) ==
    LET r1 == [r EXCEPT !.Level = lv, !.Message = Sprintf(format, args)]
    IN  [rec |-> r1, write |-> writeRecord(lv, i, r1)]

\* the level-named methods of Record: the function each calls and the level
\* it passes
levelMethods ==
    {[name |-> "Info", fn |-> "log", level |-> "InfoLevel"],
     [name |-> "Infof", fn |-> "logf", level |-> "InfoLevel"],
     [name |-> "Trace", fn |-> "log", level |-> "TraceLevel"],
     [name |-> "Tracef", fn |-> "logf", level |-> "TraceLevel"],
     [name |-> "Error", fn |-> "log", level |-> "ErrorLevel"],
     [name |-> "Errorf", fn |-> "logf", level |-> "ErrorLevel"],
     [name |-> "Warn", fn |-> "log", level |-> "WarnLevel"],
     [name |-> "Warnf", fn |-> "logf", level |-> "ErrorLevel"],
     [name |-> "Notice", fn |-> "log", level |-> "NoticeLevel"],
     [name |-> "Noticef", fn |-> "logf", level |-> "NoticeLevel"],
     [name |-> "Debug", fn |-> "log", level |-> "DebugLevel"],
     [name |-> "Debugf", fn |-> "logf", level |-> "DebugLevel"],
     [name |-> "Print", fn |-> "log", level |-> "PrintLevel"],
     [name |-> "Println", fn |-> "log", level |-> "PrintLevel"],
     [name |-> "Printf", fn |-> "logf", level |-> "PrintLevel"],
     [name |-> "Fatal", fn |-> "log", level |-> "FatalLevel"],
     [name |-> "Fatalln", fn |-> "log", level |-> "FatalLevel"],
     [name |-> "Fatalf", fn |-> "logf", level |-> "FatalLevel"],
     [name |-> "Panic", fn |-> "log", level |-> "PanicLevel"],
     [name |-> "Panicln", fn |-> "log", level |-> "PanicLevel"],
     [name |-> "Panicf", fn |-> "logf", level |-> "PanicLevel"]}

methodNamed(m) == CHOOSE x \in levelMethods : x.name = m
LogMethods == {x.name : x \in {y \in levelMethods : y.fn = "log"}}
LogfMethods == {x.name : x \in {y \in levelMethods : y.fn = "logf"}}

\* r.Info(args...), r.Warn(args...), ...: the methods that call r.log
CallLog ==
    /\ rlast.n < MaxChain
    /\ \E i \in 1..Len(recs), m \in LogMethods, args \in LogArgs :
          LET res == log(i, recs[i], methodNamed(m).level, args)
          IN  /\ recs' = [recs EXCEPT ![i] = res.rec]
              /\ written' = Append(written, res.write)
              /\ rlast' = methodRun(rlast.n + 1, "log", i, i, [NoArgs EXCEPT !.name = m])
    /\ UNCHANGED heap
    /\ UNCHANGED exceptRec

\* r.Infof(format, args...), r.Warnf(format, args...), ...: the methods that
\* call r.logf
CallLogf ==
    /\ rlast.n < MaxChain
    /\ \E i \in 1..Len(recs), m \in LogfMethods, format \in LogFormats, args \in LogArgs :
          LET res == logf(i, recs[i], methodNamed(m).level, format, args)
          IN  /\ recs' = [recs EXCEPT ![i] = res.rec]
              /\ written' = Append(written, res.write)
              /\ rlast' = methodRun(rlast.n + 1, "logf", i, i, [NoArgs EXCEPT !.name = m])
    /\ UNCHANGED heap
    /\ UNCHANGED exceptRec

\* the arguments the With* builders are tried with
DataArgs == {NilArg, MapArg(EmptyMap), MapArg(put(EmptyMap, "k2", "v2"))}
FieldsArgs ==
    {NilArg, MapArg(put(EmptyMap, "k1", "v2")),
     MapArg(put(put(EmptyMap, "k1", "v2"), "k2", "v1"))}

\* func (r *Record) WithTime(t time.Time) *Record: the heap after the call
\* and the record returned
WithTime(h, r, t) ==
    LET c == Copy(h, r)
    IN  [heap |-> c.heap, rec |-> [c.rec EXCEPT !.Time = t]]

\* func (r *Record) WithContext(ctx context.Context) *Record
WithContext(h, r, ctx) ==
    LET c == Copy(h, r)
    IN  [heap |-> c.heap, rec |-> [c.rec EXCEPT !.Ctx = ctx]]

\* func (r *Record) WithData(data M) *Record, data the address of the
\* caller's map
WithData(h, r, data) ==
    LET c == Copy(h, r)
    IN  [heap |-> c.heap, rec |-> [c.rec EXCEPT !.Data = data]]

\* func (r *Record) WithFields(fields M) *Record, fields the caller's map
WithFields(h, r, fields) ==
    LET c  == Copy(h, r)
        h1 == IF c.rec.Fields = NilMap THEN Append(c.heap, EmptyMap) ELSE c.heap
        nr == IF c.rec.Fields = NilMap THEN [c.rec EXCEPT !.Fields = Len(c.heap) + 1]
              ELSE c.rec
    IN  [heap |-> [h1 EXCEPT ![nr.Fields] = putAll(@, fields.kv)], rec |-> nr]

\* func (r *Record) WithField(name string, val any) *Record
WithField(h, r, name, val) == WithFields(h, r, MapArg(put(EmptyMap, name, val)))

\* func (r *Record) WithError(err error) *Record
WithError(h, r, err) == WithFields(h, r, MapArg(put(EmptyMap, FieldKeyError, err)))

CallWithTime ==
    /\ rlast.n < MaxChain
    /\ \E i \in 1..Len(recs), t \in RecTimes :
          LET res == WithTime(heap, recs[i], t)
          IN  /\ heap' = res.heap
              /\ recs' = Append(recs, res.rec)
              /\ rlast' = methodRun(rlast.n + 1, "WithTime", i, Len(recs) + 1,
                                    [NoArgs EXCEPT !.t = t])
    /\ UNCHANGED written
    /\ UNCHANGED exceptRec

CallWithContext ==
    /\ rlast.n < MaxChain
    /\ \E i \in 1..Len(recs), ctx \in Ctxs :
          LET res == WithContext(heap, recs[i], ctx)
          IN  /\ heap' = res.heap
              /\ recs' = Append(recs, res.rec)
              /\ rlast' = methodRun(rlast.n + 1, "WithContext", i, Len(recs) + 1,
                                    [NoArgs EXCEPT !.ctx = ctx])
    /\ UNCHANGED written
    /\ UNCHANGED exceptRec

CallWithData ==
    /\ rlast.n < MaxChain
    /\ \E i \in 1..Len(recs), data \in DataArgs :
          LET a == alloc(heap, data)
              res == WithData(a.heap, recs[i], a.addr)
          IN  /\ heap' = res.heap
              /\ recs' = Append(recs, res.rec)
              /\ rlast' = methodRun(rlast.n + 1, "WithData", i, Len(recs) + 1,
                                    [NoArgs EXCEPT !.map = data])
    /\ UNCHANGED written
    /\ UNCHANGED exceptRec

CallWithField ==
    /\ rlast.n < MaxChain
    /\ \E i \in 1..Len(recs), name \in Keys, val \in Vals :
          LET res == WithField(heap, recs[i], name, val)
          IN  /\ heap' = res.heap
              /\ recs' = Append(recs, res.rec)
              /\ rlast' = methodRun(rlast.n + 1, "WithField", i, Len(recs) + 1,
                                    [NoArgs EXCEPT !.key = name, !.val = val])
    /\ UNCHANGED written
    /\ UNCHANGED exceptRec

CallWithFields ==
    /\ rlast.n < MaxChain
    /\ \E i \in 1..Len(recs), fields \in FieldsArgs :
          LET res == WithFields(heap, recs[i], fields)
          IN  /\ heap' = res.heap
              /\ recs' = Append(recs, res.rec)
              /\ rlast' = methodRun(rlast.n + 1, "WithFields", i, Len(recs) + 1,
                                    [NoArgs EXCEPT !.map = fields])
    /\ UNCHANGED written
    /\ UNCHANGED exceptRec

CallWithError ==
    /\ rlast.n < MaxChain
    /\ \E i \in 1..Len(recs), err \in Errs :
          LET res == WithError(heap, recs[i], err)
          IN  /\ heap' = res.heap
              /\ recs' = Append(recs, res.rec)
              /\ rlast' = methodRun(rlast.n + 1, "WithError", i, Len(recs) + 1,
                                    [NoArgs EXCEPT !.err = err])
    /\ UNCHANGED written
    /\ UNCHANGED exceptRec

(***************************************************************************)
(* Specifications                                                          *)
(***************************************************************************)
InitTime == TimeInit /\ WriterIdle /\ RetainIdle /\ LockIdle /\ CompIdle /\ CloseIdle /\ RecIdle
NextTime == CallFirstCheckTime
SpecTime == InitTime /\ [][NextTime]_vars

InitWriter == TimeIdle /\ WriterInit /\ RetainIdle /\ LockIdle /\ CompIdle /\ CloseIdle /\ RecIdle
NextWriter == WriteAny \/ TickAny
SpecWriter == InitWriter /\ [][NextWriter]_vars

InitRetain == TimeIdle /\ WriterIdle /\ RetainInit /\ LockIdle /\ CompIdle /\ CloseIdle /\ RecIdle
NextRetain == FindFiles \/ Clean
SpecRetain == InitRetain /\ [][NextRetain]_vars

InitLock == TimeIdle /\ WriterIdle /\ RetainIdle /\ LockInit /\ CompIdle /\ CloseIdle /\ RecIdle
NextLock ==
    \/ CallWriteAny \/ LockAny \/ CheckAny \/ CloseHandleAny \/ RenameFileAny
    \/ OpenFileAny \/ ResetSizeAny \/ WriteBytesAny \/ UnlockAny
SpecLock == InitLock /\ [][NextLock]_vars

InitCompress == TimeIdle /\ WriterIdle /\ RetainIdle /\ LockIdle /\ CompInit /\ CloseIdle /\ RecIdle
NextCompress == Compress
SpecCompress == InitCompress /\ [][NextCompress]_vars

InitClose == TimeIdle /\ WriterIdle /\ RetainIdle /\ LockIdle /\ CompIdle /\ CloseInit /\ RecIdle
NextClose ==
    \/ WrapperClose \/ WrapperFlush \/ WrapperWrite
    \/ HandlerClose \/ HandlerFlush \/ HandlerHandle
SpecClose == InitClose /\ [][NextClose]_vars

InitRecord == TimeIdle /\ WriterIdle /\ RetainIdle /\ LockIdle /\ CompIdle /\ CloseIdle /\ RecInit
NextRecord ==
    \/ CallAddValue \/ CallLog \/ CallLogf
    \/ CallWithTime \/ CallWithContext \/ CallWithData
    \/ CallWithField \/ CallWithFields \/ CallWithError
SpecRecord == InitRecord /\ [][NextRecord]_vars

(***************************************************************************)
(* Properties                                                              *)
(***************************************************************************)
Abs(x) == IF x < 0 THEN -x ELSE x

\* epoch second of the start of the calendar hour and day that hold t
HourStartSec(t) == t.unix - ((t.unix + t.off) % 3600)
DayStartSec(t) == t.unix - ((t.unix + t.off) % 86400)
MinuteOfHour(t) == ((t.unix + t.off) % 3600) \div 60

\* the multiples of m that are nearest to x (two of them at a halfway value)
NearestMultiples(x, m) ==
    LET ms == {k * m : k \in 0..((x \div m) + 1)}
    IN  {r \in ms : \A q \in ms : Abs(r - x) <= Abs(q - x)}

\* C1: for every interval > 0 and every clock value now, the deadline
\* FirstCheckTime(now) returns is an epoch second >= now.Unix().
C1_DeadlineNotBeforeNow ==
    tpc = "done" => deadline >= now.unix

\* C2: for a minute-granularity interval of m minutes: if now.Minute()+m >= 60
\* the deadline is the start of the next hour; otherwise it is the start of
\* the current hour plus R minutes, R the multiple of m nearest to
\* now.Minute()+m; the deadline never lies beyond the start of the next hour.
C2_MinuteDeadlineRounded ==
    (tpc = "done" /\ rt >= 60 /\ rt < 3600) =>
        LET m       == rt \div 60
            nextMin == MinuteOfHour(now) + m
        IN  /\ nextMin >= 60 => deadline = HourStartSec(now) + 3600
            /\ nextMin < 60 =>
                  \E R \in NearestMultiples(nextMin, m) :
                      deadline = HourStartSec(now) + 60 * R
            /\ deadline <= HourStartSec(now) + 3600

\* C3: for a day-granularity interval and any now inside calendar day D,
\* FirstCheckTime(now) is the epoch second of the start of day D+1.
C3_DayDeadlineIsNextDayStart ==
    (tpc = "done" /\ rt >= 86400) => deadline = DayStartSec(now) + 86400

\* what the code does at day granularity: the deadline is the last second of
\* day D, whatever the time of day (supporting fact for C1 and C3)
DayDeadlineIsLastSecond ==
    (tpc = "done" /\ rt >= 86400) => deadline = DayStartSec(now) + 86399

\* where the pieces of Write call i are: <<path, position>> pairs, the live
\* file standing under NoPath
Holders(i) ==
    {<<NoPath, j>> : j \in {k \in 1..Len(file) : file[k].id = i}}
    \cup UNION {{<<p, j>> : j \in {k \in 1..Len(backups[p]) : backups[p][k].id = i}} :
                    p \in DOMAIN backups}

ContentAt(h) == IF h[1] = NoPath THEN file[h[2]] ELSE backups[h[1]][h[2]]

AllWritesFit == \A i \in 1..Len(calls) : calls[i] <= wcfg.maxSize

\* C4: with a size threshold S > 0 and no time rotation, after any sequence of
\* Write calls of at most S bytes each the size counter never exceeds S; a
\* write that exactly fills the budget goes to the current file without
\* rotating, one that would overflow rotates first and is written whole into
\* the new file; the bytes of one call are never divided between two files.
C4_SizeNeverExceedsThreshold ==
    (wcfg.maxSize > 0 /\ wcfg.rotateTime = 0 /\ AllWritesFit) =>
        /\ size <= wcfg.maxSize
        /\ size = Bytes(file)
        /\ calls # <<>> =>
              /\ last.kind \in {"none", "size"}
              /\ last.kind = "none" <=> last.pre + last.len <= wcfg.maxSize
              /\ last.kind = "none" =>
                    /\ size = last.pre + last.len
                    /\ file = Append(last.moved, [id |-> Len(calls), len |-> last.len])
              /\ last.kind = "size" =>
                    /\ size = last.len
                    /\ file = <<[id |-> Len(calls), len |-> last.len]>>
        /\ \A i \in 1..Len(calls) :
              /\ Cardinality(Holders(i)) = 1
              /\ \A h \in Holders(i) : ContentAt(h).len = calls[i]

\* C4 witness: a write filled the budget exactly without rotating and the
\* next one rotated
C4_Witness ==
    /\ wcfg.maxSize = 2 /\ wcfg.rotateTime = 0 /\ AllWritesFit
    /\ last.kind = "size"
    /\ Len(last.moved) = 2
    /\ Bytes(last.moved) = wcfg.maxSize

\* C5: every rotation adds exactly one backup file holding the content the
\* live file had, and leaves the live file empty with the counter at 0 (so that
\* after the write that follows they hold that write alone).  With S = 1 byte
\* and no time rotation, three one-byte writes cause 2 rotations, the backups
\* hold the first and the second write and the live file the third.
C5_RotationAddsOneBackup ==
    /\ last.kind \in {"size", "time"} =>
          /\ Cardinality(DOMAIN backups) = last.had + 1
          /\ last.path \in DOMAIN backups
          /\ backups[last.path] = last.moved
          /\ file = <<[id |-> Len(calls), len |-> last.len]>>
          /\ size = last.len
    /\ (wcfg.maxSize = 1 /\ wcfg.rotateTime = 0 /\ calls = <<1, 1, 1>>) =>
          /\ Cardinality(DOMAIN backups) = 2
          /\ {backups[p] : p \in DOMAIN backups} =
                {<<[id |-> 1, len |-> 1]>>, <<[id |-> 2, len |-> 1]>>}
          /\ file = <<[id |-> 3, len |-> 1]>>

\* what holds of the code: C5 for a writer without time rotation (supporting
\* fact for C5)
RotationAddsOneBackupBySizeOnly ==
    wcfg.rotateTime = 0 => C5_RotationAddsOneBackup

\* C6: the backup path DefaultFilenameFn produces for a rotation is never the
\* path of a backup file that already exists.
C6_NoBackupOverwritten ==
    last.kind = "size" => ~last.existed

\* C7: retention by count: with N matching backups and maxCount = K,
\* 0 < K < N, after one enforcement exactly K backups remain and they are the
\* K most recently modified; the oldest N-K are deleted.
C7_KeepsMostRecent ==
    LET before == {handled[i] : i \in 1..Len(handled)}
        kept   == {f \in before : f.name \in DOMAIN dirFiles}
        gone   == before \ kept
        N      == Cardinality((DOMAIN dirFiles \cup removed) \cap BackupNames)
        K      == rcfg.BackupNum
    IN  (rpc = "cleaned" /\ dirState = "ok" /\ rcfg.BackupTime = 0 /\ 0 < K /\ K < N) =>
            /\ {f.name : f \in before} = (DOMAIN dirFiles \cup removed) \cap BackupNames
            /\ Cardinality(kept) = K
            /\ Cardinality(gone) = N - K
            /\ removed = {f.name : f \in gone}
            /\ \A g \in gone, k \in kept : g.modTime <= k.modTime
            /\ LiveName \in DOMAIN dirFiles

\* C7 witness: K = 2 and backups B1 (oldest), B2, B3: only B2 and B3 remain
C7_Witness ==
    /\ rpc = "cleaned" /\ dirState = "ok"
    /\ rcfg = [BackupNum |-> 2, BackupTime |-> 0]
    /\ \E b1, b2, b3 \in BackupNames :
          /\ {[name |-> b1, modTime |-> 1], [name |-> b2, modTime |-> 2],
              [name |-> b3, modTime |-> 3]} = {handled[i] : i \in 1..Len(handled)}
          /\ removed = {b1}
          /\ DOMAIN dirFiles = {LiveName, b2, b3}

\* C8: with write serialization enabled, threshold check, rotation and write
\* of one call are a single critical section: no two calls are inside it at
\* once, no two rotations overlap and no call checks or writes while another
\* is in the middle of a rotation.
C8_WriteIsCriticalSection ==
    lcfg.CloseLock =>
        /\ Cardinality({p \in DOMAIN lpc : lpc[p] \in CriticalSteps}) <= 1
        /\ Cardinality({p \in DOMAIN lpc : lpc[p] \in RotateSteps}) <= 1
        /\ ~torn

\* C8 witness: one call is rotating (the handle is closed) while another
\* waits for the mutex
C8_Witness ==
    /\ lcfg.CloseLock
    /\ handle = "closed"
    /\ \E p, q \in DOMAIN lpc : p # q /\ lpc[p] = "rename" /\ lpc[q] = "lock"

\* C9: when the directory is missing, cannot be stat'ed or cannot be opened,
\* findFilesInDir invokes the handler zero times and returns nil.
C9_ScanErrorReturnsNil ==
    (rpc \in {"found", "cleaned"} /\ dirState \in {"missing", "statdenied", "opendenied"}) =>
        /\ handled = <<>>
        /\ scanErr = "nil"

\* C10: when compressFile returns an error, nothing partially written is left
\* at dstPath (the file there is as it was before the call, absent if it was
\* absent) and the source file is still present and unmodified.
C10_ErrorLeavesNoPartialFile ==
    (cpc = "done" /\ cret # "nil") =>
        /\ dstFile = cpre.dst
        /\ srcFile = cpre.src

\* the calls the i-th method call on the sink made on Output
CallsOf(i) == SubSeq(outCalls, hops[i].from + 1, hops[i].to)

\* C11: on every call of SyncCloseWrapper.Close and SyncCloseHandler.Close,
\* Output.Sync is invoked before Output.Close, and by the time Close returns
\* Output.Close has been invoked, whatever Sync returned.
C11_CloseSyncsThenCloses ==
    \A i \in 1..Len(hops) :
        hops[i].op = "Close" =>
            LET seg == CallsOf(i)
            IN  /\ \E b \in 1..Len(seg) : seg[b].op = "Close"
                /\ \A b \in 1..Len(seg) :
                      seg[b].op = "Close" => \E a \in 1..(b - 1) : seg[a].op = "Sync"

\* what holds of the code: Close always calls Output.Sync first, and calls
\* Output.Close exactly when Sync returned nil (supporting fact for C11)
CloseReleasesOnlyAfterCleanSync ==
    \A i \in 1..Len(hops) :
        hops[i].op = "Close" =>
            LET seg == CallsOf(i)
            IN  /\ seg # <<>> /\ seg[1].op = "Sync"
                /\ seg[1].res = "nil" <=> (Len(seg) = 2 /\ seg[2].op = "Close")
                /\ seg[1].res # "nil" => (Len(seg) = 1 /\ hops[i].ret = seg[1].res)

\* the entries of the map a record field held before the latest call, and
\* holds now
DataBefore(i) == entries(rlast.preHeap, rlast.preRecs[i].Data)
DataNow(i) == entries(heap, recs[i].Data)

\* C12: for every record r (r.Data nil or a map), every key and value, after
\* r.AddValue(key, value) the Data map of r holds key mapped to value and all
\* its other entries are unchanged.
C12_AddValueAddsEntry ==
    rlast.op = "AddValue" =>
        LET r == rlast.recv
        IN  /\ recs[r].Data # NilMap
            /\ rlast.args.key \in DOMAIN DataNow(r)
            /\ DataNow(r)[rlast.args.key] = rlast.args.val
            /\ DOMAIN DataNow(r) = DOMAIN DataBefore(r) \cup {rlast.args.key}
            /\ \A k \in DOMAIN DataBefore(r) \ {rlast.args.key} :
                  DataNow(r)[k] = DataBefore(r)[k]

\* what holds of the code: C12 for a record whose Data is a map already; on a
\* nil Data the call leaves an empty map (supporting fact for C12)
AddValueAddsEntryUnlessNil ==
    rlast.op = "AddValue" =>
        IF rlast.preRecs[rlast.recv].Data = NilMap
        THEN recs[rlast.recv].Data # NilMap /\ DataNow(rlast.recv) = EmptyMap
        ELSE C12_AddValueAddsEntry

\* the level-named methods by name: a method, its forms (with the f and ln
\* endings) and the level the name says
NamedLevels ==
    {[method |-> "Info", forms |-> {"Info", "Infof"}, level |-> "InfoLevel"],
     [method |-> "Trace", forms |-> {"Trace", "Tracef"}, level |-> "TraceLevel"],
     [method |-> "Error", forms |-> {"Error", "Errorf"}, level |-> "ErrorLevel"],
     [method |-> "Warn", forms |-> {"Warn", "Warnf"}, level |-> "WarnLevel"],
     [method |-> "Notice", forms |-> {"Notice", "Noticef"}, level |-> "NoticeLevel"],
     [method |-> "Debug", forms |-> {"Debug", "Debugf"}, level |-> "DebugLevel"],
     [method |-> "Print", forms |-> {"Print", "Println", "Printf"}, level |-> "PrintLevel"],
     [method |-> "Fatal", forms |-> {"Fatal", "Fatalln", "Fatalf"}, level |-> "FatalLevel"],
     [method |-> "Panic", forms |-> {"Panic", "Panicln", "Panicf"}, level |-> "PanicLevel"]}

\* the latest call was the level-named method m
Dispatched(m) == rlast.op \in {"log", "logf"} /\ rlast.args.name = m

\* the latest call set r.Level to lv and passed lv to the logger
DispatchedAt(lv) ==
    /\ recs[rlast.recv].Level = lv
    /\ written # <<>>
    /\ written[Len(written)].level = lv
    /\ written[Len(written)].rec = rlast.recv
    /\ written[Len(written)].record.Level = lv

\* C13: each level-named method of Record sets r.Level to the level in its
\* name and passes that level to the logger; a method and its f (and ln)
\* form agree on the level.
C13_MethodDispatchesAtNamedLevel ==
    \A g \in NamedLevels : \A m \in g.forms :
        Dispatched(m) =>
            /\ DispatchedAt(g.level)
            /\ DispatchedAt(methodNamed(g.method).level)

\* what holds of the code: C13 for every method but Warnf, which dispatches
\* at ErrorLevel (supporting fact for C13)
AllButWarnfDispatchAtNamedLevel ==
    /\ \A g \in NamedLevels : \A m \in g.forms \ {"Warnf"} :
          Dispatched(m) => DispatchedAt(g.level)
    /\ Dispatched("Warnf") => DispatchedAt("ErrorLevel")

Builders ==
    {"WithTime", "WithContext", "WithData", "WithField", "WithFields", "WithError"}

\* the field a builder sets
SetField ==
    [WithTime |-> "Time", WithContext |-> "Ctx", WithData |-> "Data",
     WithField |-> "Fields", WithFields |-> "Fields", WithError |-> "Fields"]

PlainFields ==
    {"Time", "Level", "Channel", "Message", "Ctx", "Caller", "CallerFlag", "CallerSkip"}
MapFields == {"Data", "Fields", "Extra"}

\* the receiver of the latest call as it was before the call, as it is now,
\* and the record the call returned
Receiver == rlast.preRecs[rlast.recv]
ReceiverNow == recs[rlast.recv]
Returned == recs[rlast.ret]

\* the receiver is as it was: its fields and the entries of its maps
ReceiverUnchanged ==
    /\ ReceiverNow = Receiver
    /\ \A f \in MapFields :
          entries(heap, ReceiverNow[f]) = entries(rlast.preHeap, Receiver[f])

\* the returned record equals the receiver in every field but those of skip
SameExcept(skip) ==
    /\ \A f \in PlainFields \ skip : Returned[f] = Receiver[f]
    /\ \A f \in MapFields \ skip :
          entries(heap, Returned[f]) = entries(rlast.preHeap, Receiver[f])

\* the entries a builder of Fields was given
GivenFields ==
    IF rlast.op = "WithField" THEN put(EmptyMap, rlast.args.key, rlast.args.val)
    ELSE IF rlast.op = "WithError" THEN put(EmptyMap, "error", rlast.args.err)
    ELSE rlast.args.map.kv

\* the field the latest builder call sets has the value given
FieldIsSet ==
    /\ rlast.op = "WithTime" => Returned.Time = rlast.args.t
    /\ rlast.op = "WithContext" => Returned.Ctx = rlast.args.ctx
    /\ rlast.op = "WithData" =>
          /\ Returned.Data = NilMap <=> rlast.args.map.isNil
          /\ entries(heap, Returned.Data) = rlast.args.map.kv
    /\ rlast.op \in {"WithField", "WithFields", "WithError"} =>
          entries(heap, Returned.Fields) =
              putAll(entries(rlast.preHeap, Receiver.Fields), GivenFields)

\* C14: WithTime, WithContext, WithData, WithField, WithFields and WithError
\* return a new record that differs from the receiver only in the field being
\* set (so what an earlier With* call set survives the later ones), and leave
\* the receiver unchanged.
C14_BuilderChangesOnlyItsField ==
    rlast.op \in Builders =>
        /\ rlast.ret # rlast.recv
        /\ ReceiverUnchanged
        /\ SameExcept({SetField[rlast.op]})
        /\ FieldIsSet

\* what holds of the code: C14 for every field but Ctx and Caller, which the
\* returned record has at their zero values unless the call sets them
\* (supporting fact for C14)
BuilderKeepsAllButCtxAndCaller ==
    rlast.op \in Builders =>
        /\ rlast.ret # rlast.recv
        /\ ReceiverUnchanged
        /\ SameExcept({SetField[rlast.op], "Ctx", "Caller"})
        /\ FieldIsSet
        /\ Returned.Caller = NilFrame
        /\ rlast.op # "WithContext" => Returned.Ctx = NilCtx

=============================================================================
